---- MODULE Spec2Model ----
(***************************************************************************)
(* The ingestion and reconciliation pipeline of the GitHub stars organizer *)
(* (stars.py, src/readme_parser.py, src/github_client.py,                  *)
(* src/database.py, src/embeddings.py).                                    *)
(*                                                                         *)
(* One behaviour is a sequence of runs of `stars fetch` (cmd_fetch) and    *)
(* `stars refresh` (cmd_refresh) against one database file.  Inside a run  *)
(* the main thread lists the stars, filters or diffs them against the      *)
(* store, removes unstarred records (refresh), fetches READMEs through a   *)
(* ThreadPoolExecutor whose workers share the class-level rate limit lock  *)
(* of ReadmeFetcher, and then embeds and stores the results one by one.    *)
(***************************************************************************)
EXTENDS Integers, Sequences, FiniteSets, TLC

\* ---------------------------------------------------------------- bounds
MaxId == 2            \* ids 1..MaxId can be starred when the remote injects faults
PoolIds == 6          \* size of the one listing of the fault-free remote
MaxRuns == 2          \* runs of the command line tool in one behaviour
MaxDepth == 1         \* calls of fetch_readme to itself (line 76) counted per item
ResetDelay == 2       \* seconds an X-RateLimit-Reset header lies ahead

\* ------------------------------------------------------ program constants
WorkerCeiling == 5    \* min(5, len(...)), stars.py:119 and stars.py:261
SafetyMargin == 5     \* the "+ 5" of the waits, readme_parser.py:31, github_client.py:76
MaxRetries == 3       \* max_retries of _get_user_with_retry, github_client.py:26
OneHour == 3600       \* the fallback wait of _get_user_with_retry, github_client.py:53

Max(a, b) == IF a >= b THEN a ELSE b
Min(a, b) == IF a <= b THEN a ELSE b

Ids == 1 .. Max(MaxId, PoolIds)

RECURSIVE SeqOf(_)
\* The ids of S in ascending order: the listing that stars exactly S.
SeqOf(S) ==
    IF S = {} THEN <<>>
    ELSE LET m == CHOOSE x \in S : \A y \in S : y >= x
         IN  <<m>> \o SeqOf(S \ {m})

Range(s) == {s[n] : n \in 1 .. Len(s)}

\* The remote side of one behaviour: the listings get_starred_repositories
\* can return, and whether calls to the remote, the model and the store can
\* fail.  The fault-free remote has one listing, longer than the worker
\* ceiling.
Environments ==
    { [listings |-> {SeqOf(S) : S \in SUBSET (1 .. MaxId)}, faults |-> TRUE],
      [listings |-> {SeqOf(1 .. PoolIds)}, faults |-> FALSE] }

VARIABLES
    env,                \* the remote of this behaviour (never changes)
    runs,               \* number of runs started
    pc,                 \* position of the main thread
    mode,               \* "fetch" (cmd_fetch) or "refresh" (cmd_refresh)
    quota,              \* locals of GitHubStarsFetcher._check_rate_limit
    starred,            \* starred_repos / current_starred: listed ids
    existing_ids,       \* refresh: set(db.get_all_repo_ids())
    removed_stars,      \* refresh: existing_ids - current_starred_ids
    deleted,            \* refresh: ids the removal loop has gone through
    repos_to_process,   \* repos_to_process (fetch) / new_stars (refresh)
    skipped_repos,      \* fetch: len(starred_repos) - len(repos_to_process)
    max_workers,        \* ThreadPoolExecutor(max_workers=...)
    fst,                \* per submitted item: position of its future
    resp,               \* per submitted item: headers of its 403 response
    lock,               \* ReadmeFetcher._rate_limit_lock: holder or 0
    rate_limited,       \* ReadmeFetcher._rate_limited
    rate_limit_reset_time, \* ReadmeFetcher._rate_limit_reset_time
    sleep_left,         \* seconds left of the time.sleep under the lock
    depth,              \* per submitted item: nested calls of fetch_readme
    repos_with_readmes, \* results appended by the as_completed loop
    diag,               \* printed error lines: [phase, i]
    k,                  \* phase 2: entries of repos_with_readmes handled
    new_repos,          \* fetch: new_repos counter
    conn,               \* the tables as the open connection sees them
    disk,               \* the committed tables
    prev                \* summary of the previous run, kept while nothing is submitted

vars == << env, runs, pc, mode, quota, starred, existing_ids,
           removed_stars, deleted, repos_to_process, skipped_repos,
           max_workers, fst, resp, lock, rate_limited,
           rate_limit_reset_time, sleep_left, depth, repos_with_readmes,
           diag, k, new_repos, conn, disk, prev >>

\* ------------------------------------------------------------- the store
\* src/database.py keeps two tables keyed by repo_id.  A row of
\* repositories is represented by its readme_content column ("null" for
\* NULL), a row of vec_repositories by the text its embedding encodes.
NoRow == "norow"
NoVec == <<>>
EmptyTables == [repos |-> [id \in Ids |-> NoRow], vecs |-> [id \in Ids |-> NoVec]]

\* SELECT 1 FROM repositories WHERE repo_id = ?
repository_exists(t, repo_id) == t.repos[repo_id] # NoRow

\* A store that reports no ids.
get_all_repo_idsNone(t) == {}

\* SELECT repo_id FROM repositories
get_all_repo_ids(t) == {id \in Ids : t.repos[id] # NoRow}

\* The statements of insert_repository in order; `outcome` names the
\* statement that raises, if any.  A statement that raises changes nothing
\* itself, the rows written before it stay in the open transaction (no
\* rollback), and only conn.commit() makes `disk` equal to the connection's
\* view.  Result: the connection's view, the committed tables, raised or not.
insert_repository(c, d, repo_id, readme_content, embedding, outcome) ==
    LET c1 == [c EXCEPT !.repos[repo_id] = readme_content]
        c2 == IF embedding # NoVec
              THEN [c1 EXCEPT !.vecs[repo_id] = embedding]
              ELSE c1
    IN  IF outcome = "insert_raises"
        THEN [conn |-> c, disk |-> d, raised |-> TRUE]
        ELSE IF outcome = "vec_insert_raises" /\ embedding # NoVec
        THEN [conn |-> c1, disk |-> d, raised |-> TRUE]
        ELSE [conn |-> c2, disk |-> c2, raised |-> FALSE]

\* A delete that forgets the repositories table.
delete_repositoryVecOnly(c, repo_id) == [c EXCEPT !.vecs[repo_id] = NoVec]

\* DELETE from both tables, then commit.
delete_repository(c, repo_id) ==
    [c EXCEPT !.repos[repo_id] = NoRow, !.vecs[repo_id] = NoVec]

\* ------------------------------------------------------------ embeddings
\* repo["description"] is optional: odd ids carry one, even ids carry None.
Description(id) == IF id % 2 = 1 THEN "description" ELSE "none"

\* EmbeddingGenerator.generate_embedding: the parts joined into
\* combined_text.  The model's encode() is deterministic, so the vector is
\* represented by the text it encodes.
generate_embedding(title, description, readme) ==
    <<title>>
    \o (IF description # "none" THEN <<description>> ELSE <<>>)
    \o (IF readme # "null" THEN <<readme>> ELSE <<>>)

\* ------------------------------------------------------------------ time
\* The code reads the clock only in differences (`reset - time.time()`) and
\* sums (`time.time() + wait_time`), so every time is kept as seconds
\* relative to time.time().  Time passes while a thread sleeps: Elapse moves
\* a relative time by the seconds slept.  Times further back than Past are
\* not told apart (the code takes max(..., 0) of every difference).
Past == 0 - SafetyMargin
Elapse(t, seconds) == Max(t - seconds, Past)

\* --------------------------------------------------- the listing's quota
\* What a quota-aware operation of GitHubStarsFetcher did: which one
\* (stage), the quota it read (remaining is -1 when it read none), the
\* seconds it slept, its calls of get_rate_limit, how many of them raised,
\* and its one-hour fallback waits.
NoQuota == [stage |-> "none", remaining |-> -1, reset |-> 0, slept |-> 0,
            calls |-> 0, failed |-> 0, hour_waits |-> 0, user |-> "none"]

\* `core.reset - time.time()` of github_client.py lines 76 and 86: core.reset
\* is a datetime (lines 82 and 98 call core.reset.strftime) and time.time() a
\* float, and Python defines no such subtraction.
ResetMinusTime(reset) == "TypeError"

\* Seconds GitHubStarsFetcher._check_rate_limit sleeps when get_rate_limit
\* reports (remaining, reset).  The TypeError of the subtraction is no
\* RateLimitExceededException, so it falls to the bare `except: pass` of
\* line 102 and the method returns at once.
GhRateLimitSleep(remaining, reset) ==
    IF remaining = 0
    THEN IF ResetMinusTime(reset) = "TypeError"
         THEN 0
         ELSE LET wait_time == Max(ResetMinusTime(reset) + SafetyMargin, 0)
              IN  IF wait_time > 0 THEN wait_time ELSE 0
    ELSE 0

\* What get_rate_limit() can do: return the quota, raise
\* RateLimitExceededException ("limited"), raise anything else.
IntroOutcomes == {"ok", "limited", "raises"}

\* GitHubStarsFetcher._check_rate_limit, lines 70-103, as the record of what
\* it did.  `first` is the outcome of get_rate_limit at line 71 and `second`
\* that of the handler's call at line 90.  A first call that raises
\* something else ends at `except: pass` (102-103); a "limited" first call
\* is followed by one more call, and whether that one raises or returns
\* (the subtraction of line 93 then raises TypeError) the inner
\* `except: pass` (100-101) ends the method.  No path but that of a
\* successful first call can reach a sleep.
GhCheckRateLimitDid(first, second, remaining, reset) ==
    [ stage      |-> "check",
      remaining  |-> IF first = "ok" THEN remaining ELSE -1,
      reset      |-> IF first = "ok" THEN reset ELSE 0,
      slept      |-> IF first = "ok" THEN GhRateLimitSleep(remaining, reset) ELSE 0,
      calls      |-> IF first = "limited" THEN 2 ELSE 1,
      failed     |-> (IF first # "ok" THEN 1 ELSE 0)
                     + (IF first = "limited" /\ second = "raises" THEN 1 ELSE 0),
      hour_waits |-> 0,
      user       |-> "ok" ]

\* What get_user() / user.login can do in one attempt: succeed, raise
\* RateLimitExceededException, raise anything else.
UserOutcomes == {"ok", "limited", "error"}

RECURSIVE GetUserWithRetry(_, _, _, _)
\* GitHubStarsFetcher._get_user_with_retry, lines 26-64, from attempt
\* number `a` (1 .. MaxRetries) on; u[a] is the outcome of get_user in that
\* attempt and r[a] that of get_rate_limit in its handler.  A "limited"
\* attempt calls get_rate_limit once; whether that raises or returns (line
\* 38 subtracts time.time() from core.reset and raises TypeError) the bare
\* except of line 51 sleeps one hour, and line 57 re-raises in the last
\* attempt.  Any other error backs off 2 ** attempt seconds, or is raised
\* in the last attempt.
GetUserWithRetry(a, u, r, did) ==
    IF u[a] = "ok" THEN [did EXCEPT !.user = "ok"]
    ELSE IF u[a] = "limited"
    THEN LET did1 == [did EXCEPT !.calls = @ + 1,
                                 !.failed = @ + (IF r[a] = "raises" THEN 1 ELSE 0),
                                 !.hour_waits = @ + 1,
                                 !.slept = @ + OneHour]
         IN  IF a = MaxRetries THEN [did1 EXCEPT !.user = "raise"]
             ELSE GetUserWithRetry(a + 1, u, r, did1)
    ELSE IF a = MaxRetries THEN [did EXCEPT !.user = "raise"]
         ELSE GetUserWithRetry(a + 1, u, r, [did EXCEPT !.slept = @ + 2 ^ (a - 1)])

\* ------------------------------------------------- the README rate limit
NoResp == [remaining |-> "absent", reset |-> Past]

\* wait_time of ReadmeFetcher._check_rate_limit, line 31.
RateLimitWait(reset_time) == Max(reset_time, 0) + SafetyMargin

\* wait_time of ReadmeFetcher._wait_if_rate_limited, line 44.
PreCallWait(reset_time) == Max(reset_time, 0)

\* ------------------------------------------------------------ the pool
Items == 1 .. Len(repos_to_process)
InFlight == {i \in Items : fst[i] \in {"enter", "presleep", "get", "check", "sleep"}}

\* A pool with one thread per item.
MaxWorkersUncapped(n) == n

\* min(5, len(repos_to_process)) / min(5, len(new_stars))
MaxWorkers(n) == Min(WorkerCeiling, n)

\* A full ingest that filters nothing out.
ReposToProcessUnfiltered(listing, t) == listing

\* cmd_fetch line 106:
\* [repo for repo in starred_repos if not db.repository_exists(repo["id"])]
ReposToProcess(listing, t) ==
    SelectSeq(listing, LAMBDA id : ~repository_exists(t, id))

\* A refresh that takes every listed item as new.
NewStarsUnfiltered(listing, ids) == listing

\* cmd_refresh line 242:
\* [repo for repo in current_starred if repo["id"] not in existing_ids]
NewStars(listing, ids) == SelectSeq(listing, LAMBDA id : id \notin ids)

\* removed_stars = existing_ids - current_starred_ids
RemovedStars(ids, listing) == ids \ Range(listing)

NoPrev == [mode |-> "none", status |-> "none", starred |-> <<>>, clean |-> TRUE,
           unstored |-> {}]

TypeOK ==
    /\ env \in Environments
    /\ runs \in 0 .. MaxRuns
    /\ pc \in {"idle", "setup", "listing", "removing", "fetching",
               "processing", "closing", "done", "aborted"}
    /\ mode \in {"fetch", "refresh"}
    /\ lock \in {0} \cup Items
    /\ rate_limited \in BOOLEAN
    /\ rate_limit_reset_time \in Nat
    /\ sleep_left \in Nat
    /\ DOMAIN fst = Items /\ DOMAIN resp = Items /\ DOMAIN depth = Items
    /\ \A i \in Items : depth[i] \in 0 .. MaxDepth
    /\ k \in 0 .. Len(repos_with_readmes)

Init ==
    /\ env \in Environments
    /\ runs = 0
    /\ pc = "idle"
    /\ mode = "fetch"
    /\ quota = NoQuota
    /\ starred = <<>>
    /\ existing_ids = {}
    /\ removed_stars = {}
    /\ deleted = {}
    /\ repos_to_process = <<>>
    /\ skipped_repos = 0
    /\ max_workers = 0
    /\ fst = <<>>
    /\ resp = <<>>
    /\ depth = <<>>
    /\ lock = 0
    /\ rate_limited = FALSE
    /\ rate_limit_reset_time = 0
    /\ sleep_left = 0
    /\ repos_with_readmes = <<>>
    /\ diag = {}
    /\ k = 0
    /\ new_repos = 0
    /\ conn = EmptyTables
    /\ disk = EmptyTables
    /\ prev = NoPrev

\* ------------------------------------------------------------- a run
\* What stays as it is from the listing to the end of the run.
runVars == << env, runs, mode >>
\* The shared state of ReadmeFetcher.
guardVars == << lock, rate_limited, rate_limit_reset_time, sleep_left >>

\* What fetch_readme_for_repo returns as readme_content when fetch_readme
\* returned (None, None), lines 72, 78 and 81.
NoDocument == "null"

\* The positions of repos_with_readmes that hold a result of item i, and
\* those among them that phase 2 has gone through.
ResultsOf(i) == {n \in 1 .. Len(repos_with_readmes) : repos_with_readmes[n].i = i}
HandledOf(i) == {n \in ResultsOf(i) : n <= k /\ pc \in {"processing", "done"}}

\* The state of work item i in the run.  Embedding is passed within one
\* iteration of the phase 2 loop; EmbedFailed and StoreFailed print the same
\* error line and are one state here.
ItemState(i) ==
    IF fst[i] = "queued" THEN "Pending"
    ELSE IF fst[i] # "done" THEN "Fetching"
    ELSE IF [phase |-> "fetch", i |-> i] \in diag THEN "FetchFailed"
    ELSE IF HandledOf(i) = {}
         THEN IF \E n \in ResultsOf(i) : repos_with_readmes[n].readme # NoDocument
              THEN "FetchedWithDocument" ELSE "FetchedNoDocument"
    ELSE IF [phase |-> "process", i |-> i] \in diag THEN "EmbedOrStoreFailed"
    ELSE "Stored"

\* The ids of the work set that have not reached Stored.
Unstored == {repos_to_process[i] : i \in {j \in Items : ItemState(j) # "Stored"}}

\* cmd_fetch lines 76-85 / cmd_refresh lines 215-224: a new process opens
\* the database (a connection sees the committed tables only) and builds
\* the fetchers; the class-level rate limit state starts afresh.
StartRun(m) ==
    /\ pc \in {"idle", "done", "aborted"}
    /\ runs < MaxRuns
    /\ runs' = runs + 1
    /\ mode' = m
    /\ pc' = "setup"
    /\ prev' = IF pc = "idle" THEN NoPrev
               ELSE [mode |-> mode, status |-> pc, starred |-> starred,
                     clean |-> diag = {}, unstored |-> Unstored]
    /\ quota' = NoQuota
    /\ starred' = <<>>
    /\ existing_ids' = {}
    /\ removed_stars' = {}
    /\ deleted' = {}
    /\ repos_to_process' = <<>>
    /\ skipped_repos' = 0
    /\ max_workers' = 0
    /\ fst' = <<>>
    /\ resp' = <<>>
    /\ depth' = <<>>
    /\ lock' = 0
    /\ rate_limited' = FALSE
    /\ rate_limit_reset_time' = 0
    /\ sleep_left' = 0
    /\ repos_with_readmes' = <<>>
    /\ diag' = {}
    /\ k' = 0
    /\ new_repos' = 0
    /\ conn' = disk
    /\ UNCHANGED << env, disk >>

\* require_github_token (stars.py lines 20-28, called at lines 77 and 216)
\* finds no GITHUB_TOKEN: sys.exit(1) before the database is opened.
RequireGithubTokenFails(m) ==
    /\ pc \in {"idle", "done", "aborted"}
    /\ runs < MaxRuns
    /\ env.faults
    /\ runs' = runs + 1
    /\ mode' = m
    /\ pc' = "aborted"
    /\ prev' = NoPrev
    /\ quota' = NoQuota
    /\ starred' = <<>>
    /\ existing_ids' = {}
    /\ removed_stars' = {}
    /\ deleted' = {}
    /\ repos_to_process' = <<>>
    /\ skipped_repos' = 0
    /\ max_workers' = 0
    /\ fst' = <<>>
    /\ resp' = <<>>
    /\ depth' = <<>>
    /\ lock' = 0
    /\ rate_limited' = FALSE
    /\ rate_limit_reset_time' = 0
    /\ sleep_left' = 0
    /\ repos_with_readmes' = <<>>
    /\ diag' = {}
    /\ k' = 0
    /\ new_repos' = 0
    /\ conn' = disk
    /\ UNCHANGED << env, disk >>

\* GitHubStarsFetcher.__init__ line 13 (cmd_fetch line 83, cmd_refresh line
\* 222): self.user = self._get_user_with_retry().  When it raises, nothing
\* catches it and the process ends.
GetUser(u, r) ==
    /\ pc = "setup"
    /\ quota.stage = "none"
    /\ u \in [1 .. MaxRetries -> UserOutcomes]
    /\ r \in [1 .. MaxRetries -> {"ok", "raises"}]
    /\ ~env.faults => (\A a \in 1 .. MaxRetries : u[a] = "ok" /\ r[a] = "ok")
    /\ quota' = GetUserWithRetry(1, u, r, [NoQuota EXCEPT !.stage = "user"])
    /\ pc' = IF quota'.user = "raise" THEN "aborted" ELSE "setup"
    /\ UNCHANGED << runVars, prev, guardVars, starred, existing_ids, removed_stars,
                    deleted, repos_to_process, skipped_repos, max_workers,
                    fst, resp, depth, repos_with_readmes, diag, k, new_repos,
                    conn, disk >>

\* get_starred_repositories line 106: self._check_rate_limit(), with the
\* outcomes of its get_rate_limit calls and the quota a successful one
\* reports; `slept` is how long the method slept.
GhCheckRateLimit(first, second, remaining, reset) ==
    /\ pc = "setup"
    /\ quota.stage = "user"
    /\ first \in IntroOutcomes
    /\ second \in {"ok", "raises"}
    /\ ~env.faults => first = "ok"
    /\ first # "limited" => second = "ok"
    /\ first # "ok" => (remaining = 0 /\ reset = 0)
    /\ pc' = "listing"
    /\ quota' = GhCheckRateLimitDid(first, second, remaining, reset)
    /\ UNCHANGED << runVars, prev, guardVars, starred, existing_ids, removed_stars,
                    deleted, repos_to_process, skipped_repos, max_workers,
                    fst, resp, depth, repos_with_readmes, diag, k, new_repos,
                    conn, disk >>

\* A listing failure that leaves the store emptied.
ListingFailsStoreLost ==
    /\ pc = "listing"
    /\ env.faults
    /\ pc' = "aborted"
    /\ quota' = NoQuota
    /\ prev' = NoPrev
    /\ conn' = EmptyTables
    /\ disk' = EmptyTables
    /\ UNCHANGED << runVars, guardVars, starred, existing_ids, removed_stars,
                    deleted, repos_to_process, skipped_repos, max_workers,
                    fst, resp, depth, repos_with_readmes, diag, k, new_repos >>

\* get_starred_repositories lines 107-129 raises (the listing source is
\* unreachable): nothing catches it and the process ends.
ListingFails ==
    /\ pc = "listing"
    /\ env.faults
    /\ pc' = "aborted"
    /\ quota' = NoQuota
    /\ prev' = NoPrev
    /\ UNCHANGED << runVars, guardVars, starred, existing_ids, removed_stars,
                    deleted, repos_to_process, skipped_repos, max_workers,
                    fst, resp, depth, repos_with_readmes, diag, k, new_repos,
                    conn, disk >>

\* The futures of a new pool: one per submitted item, all queued.
Submitted(work) == [i \in 1 .. Len(work) |-> "queued"]
NoHeaders(work) == [i \in 1 .. Len(work) |-> NoResp]
NoCalls(work) == [i \in 1 .. Len(work) |-> 0]

\* A full ingest with a removal phase: it drops the records of unlisted ids.
CmdFetchListPruning(L) ==
    /\ pc = "listing"
    /\ mode = "fetch"
    /\ L \in env.listings
    /\ LET work == ReposToProcess(L, conn)
           kept == [repos |-> [id \in Ids |-> IF id \in Range(L) THEN conn.repos[id]
                                              ELSE NoRow],
                    vecs  |-> [id \in Ids |-> IF id \in Range(L) THEN conn.vecs[id]
                                              ELSE NoVec]]
       IN  /\ starred' = L
           /\ repos_to_process' = work
           /\ skipped_repos' = Len(L) - Len(work)
           /\ max_workers' = IF work = <<>> THEN 0 ELSE MaxWorkers(Len(work))
           /\ fst' = Submitted(work)
           /\ resp' = NoHeaders(work)
           /\ depth' = NoCalls(work)
           /\ pc' = IF work = <<>> THEN "done" ELSE "fetching"
           /\ prev' = IF work = <<>> THEN prev ELSE NoPrev
           /\ conn' = kept
           /\ disk' = kept
    /\ quota' = NoQuota
    /\ UNCHANGED << runVars, guardVars, existing_ids, removed_stars, deleted,
                    repos_with_readmes, diag, k, new_repos >>

\* cmd_fetch lines 96-129: list the stars, filter out the stored ones, return
\* when nothing is left (closing the database), else open the pool and
\* submit every item.
CmdFetchList(L) ==
    /\ pc = "listing"
    /\ mode = "fetch"
    /\ L \in env.listings
    /\ LET work == ReposToProcess(L, conn)
       IN  /\ starred' = L
           /\ repos_to_process' = work
           /\ skipped_repos' = Len(L) - Len(work)
           /\ max_workers' = IF work = <<>> THEN 0 ELSE MaxWorkers(Len(work))
           /\ fst' = Submitted(work)
           /\ resp' = NoHeaders(work)
           /\ depth' = NoCalls(work)
           /\ pc' = IF work = <<>> THEN "done" ELSE "fetching"
           /\ prev' = IF work = <<>> THEN prev ELSE NoPrev
    /\ quota' = NoQuota
    /\ UNCHANGED << runVars, guardVars, existing_ids, removed_stars, deleted,
                    repos_with_readmes, diag, k, new_repos, conn, disk >>

\* A refresh that opens the pool before it removes anything.
RefreshPhaseFetchFirst(work, removed) ==
    IF work = <<>> /\ removed = {} THEN "done"
    ELSE IF work # <<>> THEN "fetching"
    ELSE "removing"

\* A refresh without the early return of lines 249-253.
RefreshPhaseNoReturn(work, removed) ==
    IF removed # {} THEN "removing" ELSE "fetching"

\* Where cmd_refresh goes after the diff: it returns when there is nothing to
\* add and nothing to remove (249-253), else the removal loop comes first
\* (255-258) and the pool after it (260-270).
RefreshPhase(work, removed) ==
    IF work = <<>> /\ removed = {} THEN "done"
    ELSE IF removed # {} THEN "removing"
    ELSE "fetching"

\* cmd_refresh lines 235-253: list the stars, diff them against the stored
\* ids, return when both sets are empty.
CmdRefreshDiff(L) ==
    /\ pc = "listing"
    /\ mode = "refresh"
    /\ L \in env.listings
    /\ LET ids     == get_all_repo_ids(conn)
           work    == NewStars(L, ids)
           removed == RemovedStars(ids, L)
       IN  /\ starred' = L
           /\ existing_ids' = ids
           /\ repos_to_process' = work
           /\ removed_stars' = removed
           /\ max_workers' = IF work = <<>> THEN 0 ELSE MaxWorkers(Len(work))
           /\ fst' = Submitted(work)
           /\ resp' = NoHeaders(work)
           /\ depth' = NoCalls(work)
           /\ pc' = RefreshPhase(work, removed)
    /\ quota' = NoQuota
    /\ prev' = NoPrev
    /\ UNCHANGED << runVars, guardVars, deleted, skipped_repos,
                    repos_with_readmes, diag, k, new_repos, conn, disk >>

\* cmd_refresh lines 255-258, one iteration of the removal loop (a set is
\* iterated in no particular order): delete_repository deletes and commits.
Remove(repo_id) ==
    /\ pc = "removing"
    /\ repo_id \in removed_stars \ deleted
    /\ conn' = delete_repository(conn, repo_id)
    /\ disk' = conn'
    /\ deleted' = deleted \cup {repo_id}
    /\ pc' = IF deleted' # removed_stars THEN "removing"
             ELSE IF repos_to_process # <<>> THEN "fetching"
             ELSE "closing"
    /\ UNCHANGED << runVars, prev, guardVars, quota, starred, existing_ids,
                    removed_stars, repos_to_process, skipped_repos,
                    max_workers, fst, resp, depth, repos_with_readmes, diag,
                    k, new_repos >>

\* delete_repository raises inside the removal loop: no try surrounds line
\* 258, the exception ends the process and the open transaction is lost.
RemoveFails(repo_id) ==
    /\ pc = "removing"
    /\ env.faults
    /\ repo_id \in removed_stars \ deleted
    /\ pc' = "aborted"
    /\ conn' = disk
    /\ UNCHANGED << runVars, prev, guardVars, quota, starred, existing_ids,
                    removed_stars, deleted, repos_to_process, skipped_repos,
                    max_workers, fst, resp, depth, repos_with_readmes, diag,
                    k, new_repos, disk >>

\* ------------------------------------------------------- phase 1: the pool
\* What the actions of the pool leave alone.
mainVars == << runVars, prev, pc, quota, starred, existing_ids, removed_stars,
               deleted, repos_to_process, skipped_repos, max_workers, k,
               new_repos, conn, disk >>

\* A worker thread of the executor takes the next queued future (the work
\* queue is first in, first out); at most max_workers threads exist.
Dispatch(i) ==
    /\ pc = "fetching"
    /\ i \in Items
    /\ fst[i] = "queued"
    /\ \A j \in Items : j < i => fst[j] # "queued"
    /\ Cardinality(InFlight) < max_workers
    /\ fst' = [fst EXCEPT ![i] = "enter"]
    /\ UNCHANGED << mainVars, guardVars, resp, depth, repos_with_readmes, diag >>

\* A lock that never makes a thread wait.
LockFreeAlways == TRUE

\* `with self._rate_limit_lock:` (lines 25 and 42) is entered only when no
\* thread holds the lock.
LockFree == lock = 0

\* A fetch_readme that issues its call without _wait_if_rate_limited.
WaitIfRateLimitedSkipped(i) ==
    /\ pc = "fetching"
    /\ i \in Items
    /\ fst[i] = "enter"
    /\ fst' = [fst EXCEPT ![i] = "get"]
    /\ UNCHANGED << mainVars, guardVars, resp, depth, repos_with_readmes, diag >>

\* ReadmeFetcher._wait_if_rate_limited (fetch_readme line 50): take the lock,
\* and sleep under it when the flag is set and the reset time lies ahead.
WaitIfRateLimited(i) ==
    /\ pc = "fetching"
    /\ i \in Items
    /\ fst[i] = "enter"
    /\ LockFree
    /\ LET wait_time == PreCallWait(rate_limit_reset_time)
       IN  IF rate_limited /\ wait_time > 0
           THEN /\ lock' = i
                /\ sleep_left' = wait_time
                /\ fst' = [fst EXCEPT ![i] = "presleep"]
           ELSE /\ lock' = 0
                /\ sleep_left' = sleep_left
                /\ fst' = [fst EXCEPT ![i] = "get"]
    /\ UNCHANGED << mainVars, rate_limited, rate_limit_reset_time, resp, depth,
                    repos_with_readmes, diag >>

\* fetch_readme_for_repo returns: the future completes with a result and the
\* as_completed loop (lines 133-143) appends it; as_completed yields in
\* completion order.  parse_content runs on a non-empty body.
FetchResult(i, content) == [i |-> i, readme |-> content]

\* The error line of the as_completed loop, lines 139-141 / 280-282.
FetchError(i) == {[phase |-> "fetch", i |-> i]}

\* An as_completed loop that hands a result to phase 2 twice.
CompleteTwice(i, content) ==
    /\ fst' = [fst EXCEPT ![i] = "done"]
    /\ resp' = [resp EXCEPT ![i] = NoResp]
    /\ depth' = [depth EXCEPT ![i] = 0]
    /\ repos_with_readmes' = repos_with_readmes
                                \o << FetchResult(i, content), FetchResult(i, content) >>
    /\ diag' = diag

Complete(i, content) ==
    /\ fst' = [fst EXCEPT ![i] = "done"]
    /\ resp' = [resp EXCEPT ![i] = NoResp]
    /\ depth' = [depth EXCEPT ![i] = 0]
    /\ repos_with_readmes' = Append(repos_with_readmes, FetchResult(i, content))
    /\ diag' = diag

\* An exception that takes the sibling futures down with it.
CompleteRaisedCancelling(i) ==
    /\ fst' = [j \in Items |-> "done"]
    /\ resp' = [j \in Items |-> NoResp]
    /\ depth' = [j \in Items |-> 0]
    /\ repos_with_readmes' = repos_with_readmes
    /\ diag' = diag \cup FetchError(i)

\* fetch_readme_for_repo raises: future.result() raises in the as_completed
\* loop, which prints the error line and goes on.
CompleteRaised(i) ==
    /\ fst' = [fst EXCEPT ![i] = "done"]
    /\ resp' = [resp EXCEPT ![i] = NoResp]
    /\ depth' = [depth EXCEPT ![i] = 0]
    /\ repos_with_readmes' = repos_with_readmes
    /\ diag' = diag \cup FetchError(i)

\* What session.get can do: answer 200, 404, 403 or another status, raise a
\* RequestException ("transport"), or end in an exception that is no
\* RequestException ("error", e.g. int() of a malformed header at line 28).
Statuses == {"200", "404", "403", "other", "transport", "error"}

\* A fetch_readme without the `except RequestException` of lines 80-81.
fetch_readmeUncaught(status) ==
    CASE status = "200" -> "doc"
      [] status = "404" -> NoDocument
      [] status = "transport" -> "raise"
      [] status = "other" -> NoDocument
      [] status = "403" -> "check"
      [] status = "error" -> "raise"

\* fetch_readme lines 55-81 on the outcome of session.get: the body of a 200
\* (58-68), (None, None) for a 404 (70-72), for a RequestException (80-81)
\* and for any other status that is not 403 (78); a 403 goes to
\* _check_rate_limit (74); any other exception leaves the method.
fetch_readme(status) ==
    CASE status = "200" -> "doc"
      [] status = "404" -> NoDocument
      [] status = "transport" -> NoDocument
      [] status = "other" -> NoDocument
      [] status = "403" -> "check"
      [] status = "error" -> "raise"

\* The headers a 403 can carry: no X-RateLimit-Remaining, a positive one,
\* or zero with an X-RateLimit-Reset that is absent or passed, or ahead.
Headers403 ==
    { [remaining |-> "absent", reset |-> Past],
      [remaining |-> "positive", reset |-> Past],
      [remaining |-> "zero", reset |-> Past],
      [remaining |-> "zero", reset |-> ResetDelay] }

\* session.get (line 56) returns or raises for item i; h are the headers of
\* a 403.  A 403 makes fetch_readme call _check_rate_limit, which first
\* needs the lock (line 25); everything else ends the future.
Respond(i, status, h) ==
    /\ pc = "fetching"
    /\ i \in Items
    /\ status \in Statuses
    /\ h \in Headers403
    /\ fst[i] = "get"
    /\ status # "200" => env.faults
    /\ status = "403" /\ h.remaining = "zero" => depth[i] < MaxDepth
    /\ status # "403" => h = NoResp
    /\ LET r == fetch_readme(status)
       IN  IF r = "check"
           THEN /\ fst' = [fst EXCEPT ![i] = "check"]
                /\ resp' = [resp EXCEPT ![i] = h]
                /\ UNCHANGED << depth, repos_with_readmes, diag >>
           ELSE IF r = "raise"
           THEN CompleteRaised(i)
           ELSE Complete(i, r)
    /\ UNCHANGED << mainVars, guardVars >>

\* ReadmeFetcher._check_rate_limit on a 403, lines 25-38: under the lock,
\* remaining == 0 sets the flag and the reset time and sleeps (still under
\* the lock); anything else returns False and fetch_readme returns
\* (None, None) at line 78.
CheckRateLimit(i) ==
    /\ pc = "fetching"
    /\ i \in Items
    /\ fst[i] = "check"
    /\ LockFree
    /\ IF resp[i].remaining = "zero"
       THEN LET wait_time == RateLimitWait(resp[i].reset)
            IN  /\ lock' = i
                /\ rate_limited' = TRUE
                /\ rate_limit_reset_time' = wait_time
                /\ sleep_left' = wait_time
                /\ fst' = [fst EXCEPT ![i] = "sleep"]
                /\ UNCHANGED << resp, depth, repos_with_readmes, diag >>
       ELSE /\ Complete(i, NoDocument)
            /\ UNCHANGED guardVars
    /\ UNCHANGED mainVars

\* A fetch_readme that gives up after the wait.
RetryFromNowhere == "done"

\* Where fetch_readme goes on after _check_rate_limit returned True: line 76
\* calls fetch_readme again for the same (owner, repo), which starts at
\* _wait_if_rate_limited.
RetryFrom == "enter"

\* A _check_rate_limit without line 36: the wait ends, the lock is released
\* and the flag stays set.
SleepEndsFlagKept(i) ==
    /\ pc = "fetching"
    /\ i \in Items
    /\ fst[i] \in {"sleep", "presleep"}
    /\ lock = i
    /\ lock' = 0
    /\ sleep_left' = 0
    /\ rate_limit_reset_time' = Max(rate_limit_reset_time - sleep_left, 0)
    /\ resp' = [j \in Items |->
                  [resp[j] EXCEPT !.reset = Elapse(@, sleep_left)]]
    /\ rate_limited' = rate_limited
    /\ IF fst[i] = "sleep"
       THEN /\ fst' = [fst EXCEPT ![i] = "enter"]
            /\ depth' = [depth EXCEPT ![i] = Min(@ + 1, MaxDepth)]
       ELSE /\ fst' = [fst EXCEPT ![i] = "get"]
            /\ depth' = depth
    /\ UNCHANGED << mainVars, repos_with_readmes, diag >>

\* A _check_rate_limit that retries inside its `with` block: the wait ends
\* and fetch_readme is called again with the lock still held.
SleepEndsHolding(i) ==
    /\ pc = "fetching"
    /\ i \in Items
    /\ fst[i] = "sleep"
    /\ lock = i
    /\ lock' = lock
    /\ sleep_left' = 0
    /\ rate_limit_reset_time' = Max(rate_limit_reset_time - sleep_left, 0)
    /\ resp' = [j \in Items |->
                  [resp[j] EXCEPT !.reset = Elapse(@, sleep_left)]]
    /\ rate_limited' = FALSE
    /\ fst' = [fst EXCEPT ![i] = "enter"]
    /\ depth' = [depth EXCEPT ![i] = Min(@ + 1, MaxDepth)]
    /\ UNCHANGED << mainVars, repos_with_readmes, diag >>

\* A time.sleep under the lock ends after the seconds asked for, and every
\* relative time moves by them.  The sleep of _check_rate_limit (line 35)
\* clears the flag, releases the lock and retries; the sleep of
\* _wait_if_rate_limited (line 46) releases the lock and issues the call.
SleepEnds(i) ==
    /\ pc = "fetching"
    /\ i \in Items
    /\ fst[i] \in {"sleep", "presleep"}
    /\ lock = i
    /\ lock' = 0
    /\ sleep_left' = 0
    /\ rate_limit_reset_time' = Max(rate_limit_reset_time - sleep_left, 0)
    /\ resp' = [j \in Items |->
                  [resp[j] EXCEPT !.reset = Elapse(@, sleep_left)]]
    /\ IF fst[i] = "sleep"
       THEN /\ rate_limited' = FALSE
            /\ fst' = [fst EXCEPT ![i] = RetryFrom]
            /\ depth' = [depth EXCEPT ![i] = Min(@ + 1, MaxDepth)]
       ELSE /\ rate_limited' = rate_limited
            /\ fst' = [fst EXCEPT ![i] = "get"]
            /\ depth' = depth
    /\ UNCHANGED << mainVars, repos_with_readmes, diag >>

\* A phase 2 that does not wait for the pool.
StartPhase2Early ==
    /\ pc = "fetching"
    /\ pc' = "processing"
    /\ k' = 0
    /\ UNCHANGED << runVars, prev, guardVars, quota, starred, existing_ids,
                    removed_stars, deleted, repos_to_process, skipped_repos,
                    max_workers, fst, resp, depth, repos_with_readmes, diag,
                    new_repos, conn, disk >>

\* The as_completed loop has seen every future and the executor's with
\* block is left: phase 2 starts (lines 145-151 / 286-289).
StartPhase2 ==
    /\ pc = "fetching"
    /\ \A i \in Items : fst[i] = "done"
    /\ pc' = "processing"
    /\ k' = 0
    /\ UNCHANGED << runVars, prev, guardVars, quota, starred, existing_ids,
                    removed_stars, deleted, repos_to_process, skipped_repos,
                    max_workers, fst, resp, depth, repos_with_readmes, diag,
                    new_repos, conn, disk >>

\* ---------------------------------------------- phase 2: embed and store
ProcessOutcomes == {"ok", "embed_raises", "insert_raises", "vec_insert_raises"}

\* A phase 2 that swallows the exception without a line.
ProcessErrorSilent(i) == {}

\* The error line of lines 159-161 / 296-298.
ProcessError(i) == {[phase |-> "process", i |-> i]}

\* One iteration of the phase 2 loop (lines 152-163 / 290-300):
\* process_repository embeds and inserts; an exception is printed and the
\* loop goes on.  Only cmd_fetch counts new_repos.
ProcessRepository(outcome) ==
    /\ pc = "processing"
    /\ k < Len(repos_with_readmes)
    /\ outcome \in ProcessOutcomes
    /\ outcome # "ok" => env.faults
    /\ LET repo_data == repos_with_readmes[k + 1]
           repo_id   == repos_to_process[repo_data.i]
           embedding == generate_embedding("title", Description(repo_id),
                                           repo_data.readme)
           r == insert_repository(conn, disk, repo_id, repo_data.readme,
                                  embedding, outcome)
       IN  IF outcome = "embed_raises"
           THEN /\ diag' = diag \cup ProcessError(repo_data.i)
                /\ UNCHANGED << conn, disk, new_repos >>
           ELSE /\ conn' = r.conn
                /\ disk' = r.disk
                /\ diag' = IF r.raised THEN diag \cup ProcessError(repo_data.i)
                           ELSE diag
                /\ new_repos' = IF ~r.raised /\ mode = "fetch"
                                THEN new_repos + 1 ELSE new_repos
    /\ k' = k + 1
    /\ UNCHANGED << runVars, prev, guardVars, pc, quota, starred, existing_ids,
                    removed_stars, deleted, repos_to_process, skipped_repos,
                    max_workers, fst, resp, depth, repos_with_readmes >>

\* Lines 165-179 / 302-311: print the summary and close the database;
\* close() commits nothing, so what the open transaction holds is lost.
Finish ==
    /\ \/ pc = "processing" /\ k = Len(repos_with_readmes)
       \/ pc = "closing"
    /\ pc' = "done"
    /\ conn' = disk
    /\ UNCHANGED << runVars, prev, guardVars, quota, starred, existing_ids,
                    removed_stars, deleted, repos_to_process, skipped_repos,
                    max_workers, fst, resp, depth, repos_with_readmes, diag,
                    k, new_repos, disk >>

\* What get_rate_limit can report: exhausted, low (< 100), plenty; reset at
\* the present moment or ahead.
QuotaRemaining == {0, 99, 100}
QuotaReset == {0, ResetDelay}

Next ==
    \/ \E m \in {"fetch", "refresh"} : StartRun(m)
    \/ \E m \in {"fetch", "refresh"} : RequireGithubTokenFails(m)
    \/ \E u \in [1 .. MaxRetries -> UserOutcomes],
          r \in [1 .. MaxRetries -> {"ok", "raises"}] : GetUser(u, r)
    \/ \E first \in IntroOutcomes, second \in {"ok", "raises"},
          remaining \in QuotaRemaining, reset \in QuotaReset :
          GhCheckRateLimit(first, second, remaining, reset)
    \/ ListingFails
    \/ \E L \in env.listings : CmdFetchList(L)
    \/ \E L \in env.listings : CmdRefreshDiff(L)
    \/ \E repo_id \in Ids : Remove(repo_id)
    \/ \E repo_id \in Ids : RemoveFails(repo_id)
    \/ \E i \in Items : Dispatch(i)
    \/ \E i \in Items : WaitIfRateLimited(i)
    \/ \E i \in Items, status \in Statuses, h \in Headers403 : Respond(i, status, h)
    \/ \E i \in Items : CheckRateLimit(i)
    \/ \E i \in Items : SleepEnds(i)
    \/ StartPhase2
    \/ \E outcome \in ProcessOutcomes : ProcessRepository(outcome)
    \/ Finish

Spec == Init /\ [][Next]_vars

\* ------------------------------------------- a server that keeps limiting
\* Spec lets the server answer an item with a rate limit 403 MaxDepth times.
\* fetch_readme itself counts nothing: line 76 calls it again after every
\* such answer.  Here the server goes on: session.get of an item that is
\* MaxDepth or more calls deep is answered 403 with no quota left once more
\* (depth stays at MaxDepth, which then stands for "MaxDepth or more").
RespondRateLimitedAgain(i, h) ==
    /\ pc = "fetching"
    /\ i \in Items
    /\ h \in Headers403
    /\ h.remaining = "zero"
    /\ env.faults
    /\ fst[i] = "get"
    /\ depth[i] = MaxDepth
    /\ fst' = [fst EXCEPT ![i] = "check"]
    /\ resp' = [resp EXCEPT ![i] = h]
    /\ UNCHANGED << mainVars, guardVars, depth, repos_with_readmes, diag >>

NextStorm ==
    \/ Next
    \/ \E i \in Items, h \in Headers403 : RespondRateLimitedAgain(i, h)

\* The program's threads keep running (a thread that can take a step takes
\* one, a sleep ends, session.get returns or raises within its timeout);
\* which answer the server gives is up to the server.
StormSpec == Init /\ [][NextStorm]_vars /\ WF_vars(NextStorm)

\* The program under a server that rate limits each item at most MaxDepth
\* times: threads that can run do run, and a sleep ends.
FairSpec == Spec /\ WF_vars(Next)

\* ================================================================ claims
Stored(t) == get_all_repo_ids(t)
AfterDiff == pc \in {"removing", "fetching", "processing", "closing", "done"}
\* The ids the error lines printed so far name.
Reported == {repos_to_process[d.i] : d \in diag}

\* C1: in a refresh, toAdd (new_stars) is exactly the listed items whose id
\* is not persisted, in listing order and once each; toRemove
\* (removed_stars) is exactly the persisted ids that are not listed; the two
\* share no id.  The persisted ids are those of the store when the diff is
\* taken.
C1_DiffIsSetDifference ==
    (mode = "refresh" /\ AfterDiff) =>
        /\ \A id \in Ids :
              id \in Range(repos_to_process)
                 <=> (id \in Range(starred) /\ id \notin existing_ids)
        /\ Len(repos_to_process)
              = Cardinality({n \in 1 .. Len(starred) : starred[n] \notin existing_ids})
        /\ \A a, b \in 1 .. Len(repos_to_process) :
              a < b => repos_to_process[a] < repos_to_process[b]
        /\ \A id \in Ids :
              id \in removed_stars
                 <=> (id \in existing_ids /\ id \notin Range(starred))
        /\ Range(repos_to_process) \cap removed_stars = {}
        /\ pc = "removing" => existing_ids \ deleted = Stored(disk)

\* A refresh that found both stars to add and stars to remove.
C1_Witness ==
    /\ mode = "refresh" /\ AfterDiff
    /\ repos_to_process # <<>>
    /\ removed_stars # {}

\* C2 as stated: after a refresh the stored ids are exactly the listed ids.
C2_RefreshMirrorsListing ==
    (mode = "refresh" /\ pc = "done") => Stored(disk) = Range(starred)

\* C2 amended: after a refresh that completed, every stored id is listed,
\* every listed id is stored unless an error line names its item, and so the
\* stored ids are exactly the listed ids when no item failed.
C2_RefreshReconciles ==
    (mode = "refresh" /\ pc = "done") =>
        /\ Stored(disk) \subseteq Range(starred)
        /\ Range(starred) \ Reported \subseteq Stored(disk)
        /\ diag = {} => Stored(disk) = Range(starred)

\* A refresh that removed a record and added another, with no failure.
C2_Witness ==
    /\ mode = "refresh" /\ pc = "done"
    /\ deleted # {}
    /\ repos_to_process # <<>>
    /\ diag = {}
    /\ Stored(disk) = Range(starred)

C4_CountsAddUp ==
    /\ (mode = "fetch" /\ pc = "processing") =>
           new_repos + Cardinality({d \in diag : d.phase = "process"}) = k
    /\ (mode = "fetch" /\ pc = "done") =>
           /\ k = Len(repos_with_readmes)
           /\ \A i \in Items : fst[i] = "done"
           /\ new_repos + Cardinality(diag) = Len(repos_to_process)
           /\ new_repos + skipped_repos + Cardinality(diag) = Len(starred)
           /\ new_repos = Cardinality({i \in Items : \A d \in diag : d.i # i})

\* A full ingest in which one item failed in phase 2 and another was added.
C4_Witness ==
    /\ mode = "fetch" /\ pc = "done"
    /\ \E d \in diag : d.phase = "process"
    /\ new_repos >= 1

\* The terminal fetch outcomes recorded for item i: results appended by the
\* as_completed loop plus its fetch error line.
Outcomes(i) ==
    Cardinality({n \in 1 .. Len(repos_with_readmes) : repos_with_readmes[n].i = i})
    + (IF [phase |-> "fetch", i |-> i] \in diag THEN 1 ELSE 0)

\* C5: every submitted item gets exactly one terminal fetch outcome, a
\* result or a captured exception, when its future is done and none before,
\* whatever the completion order; when phase 1 is over every item has one;
\* and at the end of the run every item that is not stored is named by an
\* error line.
C5_OneOutcomeEach ==
    /\ pc \in {"fetching", "processing", "done"} =>
           \A i \in Items : Outcomes(i) = (IF fst[i] = "done" THEN 1 ELSE 0)
    /\ pc \in {"processing", "done"} => \A i \in Items : fst[i] = "done"
    /\ pc = "done" =>
           \A i \in Items :
              \/ repos_to_process[i] \in Stored(disk)
              \/ \E d \in diag : d.i = i

\* A run in which one fetch raised and a sibling was fetched and stored.
C5_Witness ==
    /\ pc = "done"
    /\ \E i, j \in Items :
          /\ i # j
          /\ [phase |-> "fetch", i |-> i] \in diag
          /\ \A d \in diag : d.i # j
          /\ repos_to_process[j] \in Stored(disk)

\* C6: with remaining = 0 and reset time T a quota wait returns no earlier
\* than T (the README fetcher no earlier than T plus the margin), and with
\* remaining > 0 it returns without sleeping.  Stated of both quota waits:
\* GitHubStarsFetcher._check_rate_limit before the listing, and
\* ReadmeFetcher._check_rate_limit (an item back from it is at RetryFrom).
C6_QuotaWaitCoversReset ==
    /\ quota.remaining = 0 => quota.slept >= quota.reset
    /\ quota.remaining > 0 => quota.slept = 0
    /\ \A i \in Items :
          (depth[i] > 0 /\ fst[i] = RetryFrom) => resp[i].reset + SafetyMargin <= 0

\* C7: a 403 with remaining = 0 never ends the item: the item waits for the
\* lock, sleeps, and then calls fetch_readme again for the same item; no
\* result and no error line is recorded for it on the way.
C7_RateLimitRetries ==
    [][ \A i \in Items :
          /\ (fst[i] = "check" /\ resp[i].remaining = "zero")
                => fst'[i] \in {"check", "sleep"}
          /\ fst[i] = "sleep" => fst'[i] \in {"sleep", "enter"}
          /\ (fst[i] \in {"check", "sleep"} /\ resp[i].remaining = "zero")
                => /\ Outcomes(i)' = 0
                   /\ repos_to_process' = repos_to_process
      ]_vars

\* An item is issuing its call again after a rate limit wait.
C7_Witness == \E i \in Items : depth[i] > 0 /\ fst[i] = "get"

\* C8: a 404 or a transport failure ends the fetch with a result that has no
\* README and with no error line; and an item without README whose phase 2
\* did not raise is stored with a NULL readme_content and with an embedding
\* of its title and description only.
C8_NoDocumentStillStored ==
    /\ [][ \A i \in Items : \A status \in {"404", "transport"} :
              Respond(i, status, NoResp)
                 => /\ repos_with_readmes'
                         = Append(repos_with_readmes, [i |-> i, readme |-> "null"])
                    /\ diag' = diag ]_vars
    /\ [](pc \in {"processing", "done"} =>
            \A n \in 1 .. k :
               LET e  == repos_with_readmes[n]
                   id == repos_to_process[e.i]
               IN  (e.readme = "null" /\ [phase |-> "process", i |-> e.i] \notin diag)
                      => /\ disk.repos[id] = "null"
                         /\ disk.vecs[id] # NoVec
                         /\ disk.vecs[id][1] = "title"
                         /\ \A m \in 1 .. Len(disk.vecs[id]) :
                               disk.vecs[id][m] \in {"title", "description"})

\* An item without README has been stored with an embedding.
C8_Witness ==
    /\ pc = "done"
    /\ \E n \in 1 .. Len(repos_with_readmes) :
          LET e == repos_with_readmes[n]
          IN  /\ e.readme = "null"
              /\ disk.repos[repos_to_process[e.i]] = "null"
              /\ disk.vecs[repos_to_process[e.i]] # NoVec

\* C9: at most min(5, number of submitted items) fetches are in flight.
C9_InFlightBounded ==
    Cardinality(InFlight) <= Min(WorkerCeiling, Len(repos_to_process))

\* Five fetches are in flight while a sixth item is still queued.
C9_Witness ==
    /\ Cardinality(InFlight) = WorkerCeiling
    /\ \E i \in Items : fst[i] = "queued"

\* C10: every stored record has a stored embedding vector, and an item
\* whose embedding or store write raised leaves no record behind.
C10_StoredMeansEmbedded ==
    /\ \A id \in Ids : disk.repos[id] # NoRow => disk.vecs[id] # NoVec
    /\ pc \in {"processing", "done"} =>
          \A d \in diag :
             d.phase = "process" => disk.repos[repos_to_process[d.i]] = NoRow

\* C11: in a refresh every deletion of an id of toRemove comes before the
\* first fetch of an item of toAdd is dispatched: a deletion only happens
\* while every future is still queued, and once a future has left the queue
\* every id of toRemove has gone through the removal loop and is out of the
\* store.
C11_RemovalsBeforeFetches ==
    (mode = "refresh" /\ \E i \in Items : fst[i] # "queued") =>
        /\ pc # "removing"
        /\ deleted = removed_stars
        /\ removed_stars = existing_ids \ Range(starred)
        /\ \A id \in existing_ids \ Range(starred) : disk.repos[id] = NoRow

\* A refresh with something to remove has dispatched its first fetch.
C11_Witness ==
    /\ mode = "refresh"
    /\ removed_stars # {}
    /\ \E i \in Items : fst[i] = "enter"

\* C12: in a refresh the deletions are best effort and independent: a
\* deletion that fails does not end the run, which still deletes the other
\* ids of toRemove and ingests toAdd.  So a refresh that had ids to remove
\* never aborts, and it ends with every item of toAdd handled.
C12_DeletionsIndependent ==
    (mode = "refresh" /\ removed_stars # {}) =>
        /\ pc # "aborted"
        /\ pc = "done" => \A i \in Items : fst[i] = "done"

\* C13: a run whose credential is missing or whose listing fails aborts
\* before any item-level work: from the start of the run to the abort no
\* step changes the store, no record is deleted, no future exists (no README
\* fetch is issued) and nothing is embedded or written.
C13_SetupFailureTouchesNothing ==
    [][ (\/ runs' # runs
         \/ pc' \in {"setup", "listing"}
         \/ (pc \in {"setup", "listing"} /\ pc' = "aborted"))
          => /\ disk' = disk
             /\ conn' = disk
             /\ fst' = <<>>
             /\ deleted' = {}
             /\ repos_with_readmes' = <<>>
             /\ k' = 0 ]_vars

\* A run has aborted in its setup while the store holds records.
C13_Witness ==
    /\ pc = "aborted"
    /\ starred = <<>>
    /\ removed_stars = {}
    /\ Stored(disk) # {}

\* C14: a refresh that finds nothing to add and nothing to remove is a
\* no-op: it returns from the diff at once, the store is left as it was, and
\* no future is created, nothing is embedded, written or deleted.
C14_EmptyDiffIsNoOp ==
    [][ (mode = "refresh" /\ pc = "listing" /\ pc' # "aborted"
            /\ repos_to_process' = <<>> /\ removed_stars' = {})
          => /\ pc' = "done"
             /\ disk' = disk
             /\ conn' = conn
             /\ fst' = <<>>
             /\ deleted' = {}
             /\ repos_with_readmes' = <<>>
             /\ k' = 0
             /\ diag' = {}
             /\ {id \in Ids : disk'.repos[id] # NoRow} = Range(starred') ]_vars

\* A refresh of a non-empty store has found it up to date and returned.
C14_Witness ==
    /\ mode = "refresh" /\ pc = "done"
    /\ starred # <<>>
    /\ repos_to_process = <<>>
    /\ removed_stars = {}
    /\ deleted = {}
    /\ existing_ids = Range(starred)

\* C15: a full ingest has no removal phase: no step of it deletes a record,
\* so every id stored before it is stored after it, listed or not, and the
\* record of an id it did not submit stays as it was.
C15_FullIngestKeepsRecords ==
    [][ mode' = "fetch"
          => /\ deleted' = {} /\ removed_stars' = {}
             /\ \A id \in Ids :
                   disk.repos[id] # NoRow
                      => /\ disk'.repos[id] # NoRow
                         /\ id \notin Range(repos_to_process')
                              => /\ disk'.repos[id] = disk.repos[id]
                                 /\ disk'.vecs[id] = disk.vecs[id] ]_vars

\* A full ingest has ended with a stored id that its listing does not hold.
C15_Witness ==
    /\ mode = "fetch" /\ pc = "done"
    /\ \E id \in Ids : disk.repos[id] # NoRow /\ id \notin Range(starred)

\* C16: a refresh reacts to set membership only: an id that is persisted
\* and listed is not put into the work set by the diff, whatever the remote
\* holds for it now, and the rows of a listed id outside the work set are
\* never fetched for, re-embedded or rewritten by any step of the refresh.
C16_RefreshIgnoresDrift ==
    [][ mode' = "refresh"
          => /\ (pc = "listing" /\ pc' \notin {"listing", "aborted"})
                  => \A id \in Range(starred') :
                        disk.repos[id] # NoRow => id \notin Range(repos_to_process')
             /\ \A id \in Range(starred') \ Range(repos_to_process') :
                   /\ disk'.repos[id] = disk.repos[id]
                   /\ disk'.vecs[id] = disk.vecs[id]
                   /\ \A n \in 1 .. Len(repos_with_readmes') :
                         repos_to_process'[repos_with_readmes'[n].i] # id ]_vars

\* A refresh has ended that added an item while an id stored without README
\* and still listed kept its record.
C16_Witness ==
    /\ mode = "refresh" /\ pc = "done"
    /\ repos_with_readmes # <<>>
    /\ \E id \in existing_ids \cap Range(starred) :
          /\ disk.repos[id] = NoDocument
          /\ id \notin Range(repos_to_process)

\* The workers that sleep in ReadmeFetcher._check_rate_limit because their
\* own call was answered 403 with no quota left.
Waiting == {j \in Items : fst[j] = "sleep"}

\* C17: while a worker waits because it detected the rate limit, another
\* worker that starts a fetch (dispatched before or during the wait, and
\* not yet through _wait_if_rate_limited) does not issue its network call:
\* it stays where it is until the wait has ended.
C17_OthersHoldOff ==
    [][ \A i \in Items :
          (fst[i] \in {"queued", "enter"} /\ Waiting \ {i} # {} /\ Waiting' \ {i} # {})
             => fst'[i] \in {"queued", "enter"} ]_vars

\* A worker has started a fetch while another one waits for the reset.
C17_Witness ==
    \E i, j \in Items : i # j /\ fst[j] = "sleep" /\ fst[i] = "enter"

C19_NoSleepUnderLock ==
    \A i \in Items : fst[i] \in {"sleep", "presleep"} => lock # i

\* The ids whose rows differ between two views of the tables.
Touched(t, u) == {id \in Ids : t.repos[id] # u.repos[id] \/ t.vecs[id] # u.vecs[id]}

\* C20: the pipeline is two-phase and phase 2 is sequential.  While a fetch
\* is in flight or queued nothing has been embedded or written for the run;
\* phase 2 runs only when every future is done; and a step of phase 2
\* handles exactly one result, writing the rows of at most that one item.
C20_TwoPhases ==
    /\ [](pc = "fetching" => k = 0 /\ new_repos = 0 /\ conn = disk)
    /\ [](pc = "processing" => InFlight = {} /\ \A i \in Items : fst[i] = "done")
    /\ [][ (pc = "fetching" /\ pc' = "fetching") => disk' = disk /\ conn' = conn ]_vars
    /\ [][ (pc = "processing" /\ pc' = "processing")
              => /\ k' = k + 1
                 /\ repos_with_readmes' = repos_with_readmes
                 /\ Touched(conn, conn') \subseteq
                       {repos_to_process[repos_with_readmes[k'].i]}
                 /\ Touched(disk, disk') \subseteq
                       {repos_to_process[repos_with_readmes[n].i] : n \in 1 .. k'} ]_vars

\* Phase 2 has handled the first of two fetched results.
C20_Witness ==
    /\ pc = "processing"
    /\ k = 1
    /\ Len(repos_with_readmes) = 2
    /\ conn # EmptyTables

\* The moves of an item the state machine allows.
ItemMoves ==
    { <<"Pending", "Fetching">>,
      <<"Fetching", "FetchedWithDocument">>,
      <<"Fetching", "FetchedNoDocument">>,
      <<"Fetching", "FetchFailed">>,
      <<"FetchedWithDocument", "Stored">>,
      <<"FetchedWithDocument", "EmbedOrStoreFailed">>,
      <<"FetchedNoDocument", "Stored">>,
      <<"FetchedNoDocument", "EmbedOrStoreFailed">> }

\* C21: within a run an item moves only along Pending -> Fetching ->
\* {FetchedWithDocument, FetchedNoDocument, FetchFailed} -> (Embedding) ->
\* {Stored, EmbedFailed, StoreFailed}; phase 2 takes it up at most once, so
\* it is never retried after an embedding or store failure; and a Stored or
\* failed item never changes state again.  A Stored item has its record.
C21_ItemStateMachine ==
    /\ [][ runs' = runs =>
             \A i \in Items :
                \/ ItemState(i)' = ItemState(i)
                \/ <<ItemState(i), ItemState(i)'>> \in ItemMoves ]_vars
    /\ [](\A i \in Items :
             /\ Cardinality(ResultsOf(i)) <= 1
             /\ ItemState(i) = "Stored" => disk.repos[repos_to_process[i]] # NoRow)

\* A run has ended with one item Stored and another failed in phase 2.
C21_Witness ==
    /\ pc = "done"
    /\ \E i, j \in Items :
          ItemState(i) = "Stored" /\ ItemState(j) = "EmbedOrStoreFailed"

\* C22: a single fetch performs a bounded number of retries: a fetch whose
\* call has been issued comes to an end (a result or an exception), also
\* when the server answers every call for the item with a rate limit
\* response.
C22_FetchTerminates ==
    \A i \in Ids :
       (pc = "fetching" /\ i \in Items /\ fst[i] = "get")
          ~> (pc # "fetching" \/ (i \in Items /\ fst[i] = "done"))

\* C23: when a call of get_rate_limit fails while the client handles rate
\* limiting, the client falls back to a fixed wait of one hour, one for each
\* failed call, and the calls of get_rate_limit in one operation are
\* bounded.
C23_IntrospectionFallback ==
    /\ quota.calls <= MaxRetries
    /\ quota.failed > 0
          => /\ quota.hour_waits >= quota.failed
             /\ quota.slept >= OneHour

\* C24: an item of the listing that was in the work set of a finished run
\* and did not reach Stored in it (its fetch, its embedding or its store
\* write raised) is in the work set of the next full ingest or refresh over
\* the same listing, so it is not counted as already present.
C24_UnstoredIsReworked ==
    [][ ( /\ prev.status = "done"
          /\ prev.unstored # {}
          /\ CmdFetchList(prev.starred) \/ CmdRefreshDiff(prev.starred) )
        => prev.unstored \subseteq Range(repos_to_process') ]_vars

\* C25: a 403 answer without the remaining-quota header, or with a remaining
\* quota above zero, makes the fetch return (None, None) at once: the step
\* of _check_rate_limit that returns False can be taken as soon as the
\* answer is there, whatever the other workers do.
C25_ForbiddenReturnsAtOnce ==
    \A i \in Ids :
       (pc = "fetching" /\ i \in Items /\ fst[i] = "check"
           /\ resp[i].remaining # "zero")
          => ENABLED (CheckRateLimit(i) /\ fst'[i] = "done")

\* C26: the fetch phase never deadlocks on the quota lock.  The worker that
\* holds the lock is inside one of the two sleeps, never at a point where it
\* asks for the lock (the retry of line 76 starts after the `with` block of
\* _check_rate_limit is left); and when the server stops answering with
\* rate limit responses every worker finishes and the pool drains, so
\* phase 2 starts with the lock free.
C26_NoLockDeadlock ==
    /\ [](\A i \in Items : lock = i => fst[i] \in {"sleep", "presleep"})
    /\ \A i \in Ids :
          (pc = "fetching" /\ i \in Items /\ fst[i] # "done")
             ~> (i \in Items /\ fst[i] = "done")
    /\ (pc = "fetching") ~> (pc = "processing" /\ lock = 0)

\* A worker that waited out a rate limit is about to retry, the lock is
\* free, and another worker is still to take the lock.
C26_Witness ==
    /\ pc = "fetching"
    /\ lock = 0
    /\ \E i, j \in Items :
          /\ i # j
          /\ fst[i] = "enter" /\ depth[i] > 0
          /\ fst[j] \in {"enter", "check"}

\* C27: _rate_limited is true only while a worker holds the lock inside the
\* sleep of _check_rate_limit; so a worker that can enter the block of
\* _wait_if_rate_limited finds the flag false, and no worker is ever in the
\* sleep of _wait_if_rate_limited (line 46).
C27_FlagOnlyUnderLock ==
    /\ rate_limited => \E j \in Items : lock = j /\ fst[j] = "sleep"
    /\ \A i \in Items :
          /\ ENABLED WaitIfRateLimited(i) => ~rate_limited
          /\ fst[i] # "presleep"

\* The flag is set by a worker asleep under the lock while another worker
\* stands before the pre-call check with time left to wait.
C27_Witness ==
    /\ pc = "fetching"
    /\ rate_limited
    /\ sleep_left > 0
    /\ PreCallWait(rate_limit_reset_time) > 0
    /\ \E i, j \in Items :
          /\ lock = j /\ fst[j] = "sleep"
          /\ fst[i] = "enter"

====
